---- MODULE Spec2Model ----
(***************************************************************************)
(* Model of src/estimator_dashboard.py: a Streamlit script that is re-run  *)
(* from top to bottom after every interaction of the user with one of its  *)
(* widgets (file uploader, two select boxes, two sliders).                 *)
(*                                                                         *)
(* Numbers.  Quantity is an integer, Unit Price and Total Cost are amounts *)
(* in cents.  The script multiplies by (1 + pct / 100); the model keeps    *)
(* the exact value of that product as a fixed-point integer:               *)
(*   Adjusted Qty       is held in hundredths of a unit,                   *)
(*   Final Unit Price   is held in hundredths of a cent,                   *)
(*   Adjusted Cost (€)  is held in ten-thousandths of a cent.              *)
(* The rounding of the binary floating point of the interpreter is not     *)
(* modelled: sums and products are the exact ones.                         *)
(***************************************************************************)
EXTENDS Integers, Sequences, FiniteSets, TLC

VARIABLES
    cache,              \* the value memoized by st.cache_data for load_data()
    disk,               \* the file the user has at hand to upload
    uploaded_file,      \* << >> (None) or << the file held by the uploader >>
    reader,             \* the pandas reader the last run applied to the upload
    df,                 \* the script's df when the last run ended
    category_options,   \* options of the category select box, as last rendered
    supplier_options,   \* options of the supplier select box, as last rendered
    category_ix,        \* position selected in the category select box
    supplier_ix,        \* position selected in the supplier select box
    markup,             \* value of the markup slider
    waste,              \* value of the waste slider
    filtered_df,        \* the script's filtered_df when the last run ended
    total_adjusted_cost,\* the script's total_adjusted_cost
    fig1,               \* the data of the bar chart: Category -> summed cost
    err,                \* the exception that ended the last run, or "none"
    errline             \* the source line that raised it, or 0

vars == << cache, disk, uploaded_file, reader, df, category_options,
           supplier_options, category_ix, supplier_ix, markup, waste,
           filtered_df, total_adjusted_cost, fig1, err, errline >>

----------------------------------------------------------------------------
(* Bounds of the model *)

\* longest table the user uploads
MaxRows == 2

----------------------------------------------------------------------------
(* Column names *)

ITEM == "Item"
CATEGORY == "Category"
QUANTITY == "Quantity"
UNIT == "Unit"
UNIT_PRICE == "Unit Price (€)"
SUPPLIER == "Supplier"
TOTAL_COST == "Total Cost (€)"
ADJUSTED_QTY == "Adjusted Qty"
FINAL_UNIT_PRICE == "Final Unit Price"
ADJUSTED_COST == "Adjusted Cost (€)"

ALL == "All"

\* the columns the script reads or writes by name
Canonical == {ITEM, CATEGORY, QUANTITY, UNIT, UNIT_PRICE, SUPPLIER, TOTAL_COST}

Derived == {ADJUSTED_QTY, FINAL_UNIT_PRICE, ADJUSTED_COST}

\* the mapping handed to df.rename(columns=...)
RenameCol(c) ==
    CASE c = "Item" -> ITEM
      [] c = "Categoria" -> CATEGORY
      [] c = "Quantidade" -> QUANTITY
      [] c = "Unidade" -> UNIT
      [] c = "Preço Unitário (€)" -> UNIT_PRICE
      [] c = "Fornecedor" -> SUPPLIER
      [] c = "Custo Total (€)" -> TOTAL_COST
      [] OTHER -> c

\* the header a source in the other language gives to a canonical column
Localized(c) ==
    CASE c = CATEGORY -> "Categoria"
      [] c = QUANTITY -> "Quantidade"
      [] c = UNIT -> "Unidade"
      [] c = UNIT_PRICE -> "Preço Unitário (€)"
      [] c = SUPPLIER -> "Fornecedor"
      [] c = TOTAL_COST -> "Custo Total (€)"
      [] OTHER -> c

----------------------------------------------------------------------------
(* Tables: a set of column names and a sequence of rows, each row a        *)
(* function from the column names to the cell values.                      *)

EmptyTable == [cols |-> {}, rows |-> << >>]

NRows(t) == Len(t.rows)

\* the cells of row r in the columns cs, each under its new name
RECURSIVE RenameCells(_, _)
RenameCells(r, cs) ==
    IF cs = {} THEN << >>
    ELSE LET c == CHOOSE x \in cs : TRUE
         IN  (RenameCol(c) :> r[c]) @@ RenameCells(r, cs \ {c})

RECURSIVE RenameRows(_, _)
RenameRows(s, cs) ==
    IF s = << >> THEN << >>
    ELSE << RenameCells(Head(s), cs) >> \o RenameRows(Tail(s), cs)

\* DataFrame.rename(columns=..., inplace=True)
Rename(t) ==
    [cols |-> {RenameCol(c) : c \in t.cols}, rows |-> RenameRows(t.rows, t.cols)]

\* df[name] = series: the column is added, or overwritten, row by row
Assign(t, name, series) ==
    [cols |-> t.cols \cup {name},
     rows |-> [i \in 1..NRows(t) |-> (name :> series[i]) @@ t.rows[i]]]

\* the rows of s that satisfy the mask t[col] == v, in their order
RECURSIVE MaskRows(_, _, _)
MaskRows(s, col, v) ==
    IF s = << >> THEN << >>
    ELSE IF Head(s)[col] = v
         THEN << Head(s) >> \o MaskRows(Tail(s), col, v)
         ELSE MaskRows(Tail(s), col, v)

\* t[t[col] == v]
Mask(t, col, v) == [cols |-> t.cols, rows |-> MaskRows(t.rows, col, v)]

\* Series.sum() of column col
RECURSIVE SumRows(_, _)
SumRows(s, col) ==
    IF s = << >> THEN 0 ELSE Head(s)[col] + SumRows(Tail(s), col)

\* the distinct values of a column
Unique(t, col) == {t.rows[i][col] : i \in 1..NRows(t)}

\* the rows of a table, each cut down to the columns cs
Project(t, cs) == [i \in 1..NRows(t) |-> [c \in cs |-> t.rows[i][c]]]

\* the labels the model draws from, in the order sorted() gives them
LabelOrder == << "Acme", "All", "Bolt", "HVAC", "Piping" >>

\* sorted(values)
Sorted(S) == SelectSeq(LabelOrder, LAMBDA x : x \in S)

----------------------------------------------------------------------------
(* File names, as sequences of characters *)

NameCsv == << "b", ".", "c", "s", "v" >>
NameXlsx == << "b", ".", "x", "l", "s", "x" >>
NameUpperCsv == << "B", ".", "C", "S", "V" >>
NameTxt == << "b", ".", "t", "x", "t" >>

Names == {NameCsv, NameXlsx, NameUpperCsv, NameTxt}

\* str.endswith
EndsWith(s, suffix) ==
    /\ Len(s) >= Len(suffix)
    /\ SubSeq(s, Len(s) - Len(suffix) + 1, Len(s)) = suffix

LowerChar(ch) ==
    CASE ch = "B" -> "b"
      [] ch = "C" -> "c"
      [] ch = "S" -> "s"
      [] ch = "V" -> "v"
      [] OTHER -> ch

Lower(s) == [i \in 1..Len(s) |-> LowerChar(s[i])]

\* type=["csv", "xlsx"] of the file uploader
UploaderTypes == { << "c", "s", "v" >>, << "x", "l", "s", "x" >> }

\* The uploader keeps a file only when its name, in lower case, ends in a
\* dot and one of the types; any other file is refused by the widget and
\* the script never sees it.
Accepted(name) ==
    \E t \in UploaderTypes : EndsWith(Lower(name), << "." >> \o t)

\* what the bytes of a file of that name are
Format(name) ==
    IF EndsWith(Lower(name), << ".", "c", "s", "v" >>) THEN "csv"
    ELSE IF EndsWith(Lower(name), << ".", "x", "l", "s", "x" >>) THEN "xlsx"
    ELSE "text"

----------------------------------------------------------------------------
(* The files the user may have at hand *)

Categories == {"All", "HVAC", "Piping"}
Suppliers == {"Acme", "Bolt"}

\* << Quantity, Unit Price in cents >> of a line item
Lines == { << 10, 500 >>, << 4, 1250 >>, << -2, 500 >> }

Row(c, s, q, p) == [category |-> c, supplier |-> s, quantity |-> q, unit_price |-> p]

\* a Total Cost written in the source, unrelated to Quantity * Unit Price
SuppliedTotal == 4200

\* the line items of the uploaded tables
RowTypes ==
    { Row("HVAC", "Acme", 10, 500), Row("Piping", "Bolt", 4, 1250),
      Row("HVAC", "Bolt", -2, 500), Row("Piping", "Acme", -2, 500),
      Row("All", "Acme", 4, 1250), Row("All", "Bolt", 10, 500) }

\* the line items of the bundled dataset and of the files whose header varies
SampleRows == << Row("HVAC", "Acme", 10, 500), Row("Piping", "Bolt", 4, 1250) >>

SeqsUpTo(S, n) == UNION {[1..k -> S] : k \in 0..n}

Required == {ITEM, CATEGORY, QUANTITY, UNIT_PRICE, SUPPLIER}

Cell(raw, c) ==
    CASE c = ITEM -> "item"
      [] c = CATEGORY -> raw.category
      [] c = QUANTITY -> raw.quantity
      [] c = UNIT -> "pcs"
      [] c = UNIT_PRICE -> raw.unit_price
      [] c = SUPPLIER -> raw.supplier
      [] c = TOTAL_COST -> SuppliedTotal

RECURSIVE Cells(_, _, _)
Cells(raw, canon, lang) ==
    IF canon = {} THEN << >>
    ELSE LET c == CHOOSE x \in canon : TRUE
         IN  ((IF lang = "pt" THEN Localized(c) ELSE c) :> Cell(raw, c))
                @@ Cells(raw, canon \ {c}, lang)

RECURSIVE MkRows(_, _, _)
MkRows(raw, canon, lang) ==
    IF raw = << >> THEN << >>
    ELSE << Cells(Head(raw), canon, lang) >> \o MkRows(Tail(raw), canon, lang)

\* The table a parser reads from a source whose header is in language lang,
\* has a total cost column or not, and lacks the column `missing`.
MkTable(lang, hasTotal, missing, raw) ==
    LET canon == (Canonical \ {missing}) \ (IF hasTotal THEN {} ELSE {TOTAL_COST})
    IN  [cols |-> {IF lang = "pt" THEN Localized(c) ELSE c : c \in canon},
         rows |-> MkRows(raw, canon, lang)]

\* The files: tables of every content under the canonical header, and the
\* sample rows (or none) under every header, under every name.
Files ==
    {[name |-> NameCsv, table |-> MkTable("en", FALSE, "none", raw)] :
        raw \in SeqsUpTo(RowTypes, MaxRows)}
    \cup
    {[name |-> n, table |-> MkTable(lang, tot, miss, raw)] :
        n \in Names, lang \in {"en", "pt"}, tot \in BOOLEAN,
        miss \in Required \cup {"none"}, raw \in {<< >>, SampleRows}}

\* mechanical_estimator_dataset.csv, the bundled default dataset
DefaultData == MkTable("pt", FALSE, "none", SampleRows)

----------------------------------------------------------------------------
(* The statements of the script *)

\* load_data(): st.cache_data hands out a copy of the memoized table
load_data(c) == c

\* lines 47-51: the reader is chosen by the suffix of the name.  A reader
\* succeeds on the bytes of its own format; read_excel raises ValueError
\* on anything that is not a workbook.
ReadUpload(file) ==
    IF EndsWith(file.name, << ".", "c", "s", "v" >>)
    THEN [reader |-> "read_csv", ok |-> file.format = "csv", err |-> "ParserError",
          line |-> 49, df |-> file.table]
    ELSE [reader |-> "read_excel", ok |-> file.format = "xlsx", err |-> "ValueError",
          line |-> 51, df |-> file.table]

\* Source, were the upload appended to the bundled dataset (pd.concat)
\* instead of replacing it
SourceAppended(c, up) ==
    IF up = << >>
    THEN [reader |-> "none", ok |-> TRUE, err |-> "none", line |-> 0, df |-> load_data(c)]
    ELSE LET got == ReadUpload(up[1])
         IN  IF got.df.cols = c.cols
             THEN [got EXCEPT !.df = [cols |-> c.cols, rows |-> c.rows \o got.df.rows]]
             ELSE got

\* lines 42-51: df is the default dataset unless a file is uploaded, and
\* then it is what the reader returns
Source(c, up) ==
    IF up = << >>
    THEN [reader |-> "none", ok |-> TRUE, err |-> "none", line |-> 0, df |-> load_data(c)]
    ELSE ReadUpload(up[1])

\* line 66: Quantity * Unit Price
TotalCost(r) == r[QUANTITY] * r[UNIT_PRICE]

\* WithTotalCost, were the column computed whether or not the source has it
WithTotalCostRecomputed(t) ==
    IF {QUANTITY, UNIT_PRICE} \subseteq t.cols
    THEN Assign(t, TOTAL_COST, [i \in 1..NRows(t) |-> TotalCost(t.rows[i])])
    ELSE t

\* lines 65-66
WithTotalCost(t) ==
    IF TOTAL_COST \notin t.cols
    THEN Assign(t, TOTAL_COST, [i \in 1..NRows(t) |-> TotalCost(t.rows[i])])
    ELSE t

\* lines 70, 71: ["All"] + sorted(df[col].unique().tolist())
Options(t, col) == << ALL >> \o Sorted(Unique(t, col))

\* A select box without a key is identified by its label and its options:
\* it keeps the position selected while the options stay what they were,
\* and starts again at the first option when they change.
Selectbox(options, shown, ix) == IF options = shown THEN ix ELSE 1

\* Filtered, were the second mask left out
FilteredByCategoryOnly(t, category, supplier) ==
    IF category # ALL THEN Mask(t, CATEGORY, category) ELSE t

\* Filtered, were an empty selection replaced by the whole table
FilteredOrEverything(t, category, supplier) ==
    LET f1 == IF category # ALL THEN Mask(t, CATEGORY, category) ELSE t
        f2 == IF supplier # ALL THEN Mask(f1, SUPPLIER, supplier) ELSE f1
    IN  IF f2.rows = << >> THEN t ELSE f2

\* lines 73-77
Filtered(t, category, supplier) ==
    LET f0 == t
        f1 == IF category # ALL THEN Mask(f0, CATEGORY, category) ELSE f0
        f2 == IF supplier # ALL THEN Mask(f1, SUPPLIER, supplier) ELSE f1
    IN  f2

\* 1 + pct / 100, in hundredths
Hundred == 100
Factor(pct) == Hundred + pct

\* line 84, in hundredths of a unit
AdjustedQty(r, ws) == r[QUANTITY] * Factor(ws)

\* FinalUnitPrice, were the markup taken off instead of added
FinalUnitPriceDiscounted(r, mk) == r[UNIT_PRICE] * (Hundred - mk)

\* line 85, in hundredths of a cent
FinalUnitPrice(r, mk) == r[UNIT_PRICE] * Factor(mk)

\* AdjustedCost, were it computed from Quantity instead of Adjusted Qty
AdjustedCostWithoutWaste(r) == r[QUANTITY] * Hundred * r[FINAL_UNIT_PRICE]

\* line 86, in ten-thousandths of a cent
AdjustedCost(r) == r[ADJUSTED_QTY] * r[FINAL_UNIT_PRICE]

\* lines 84-86: the three derived columns, one statement after the other
Adjust(t, mk, ws) ==
    LET f84 == Assign(t, ADJUSTED_QTY,
                      [i \in 1..NRows(t) |-> AdjustedQty(t.rows[i], ws)])
        f85 == Assign(f84, FINAL_UNIT_PRICE,
                      [i \in 1..NRows(t) |-> FinalUnitPrice(f84.rows[i], mk)])
    IN  Assign(f85, ADJUSTED_COST,
               [i \in 1..NRows(t) |-> AdjustedCost(f85.rows[i])])

\* line 88
Total(t) == SumRows(t.rows, ADJUSTED_COST)

\* GroupBySum, were the chart fed the Total Cost column
GroupBySumOfTotalCost(t) ==
    [c \in Unique(t, CATEGORY) |->
        SumRows(MaskRows(t.rows, CATEGORY, c), TOTAL_COST)]

\* line 103: filtered_df.groupby("Category")["Adjusted Cost (€)"].sum()
GroupBySum(t) ==
    [c \in Unique(t, CATEGORY) |->
        SumRows(MaskRows(t.rows, CATEGORY, c), ADJUSTED_COST)]

NoChart == [c \in {} |-> 0]

\* the state of the widgets before the script has rendered any
FreshWidgets ==
    [category_options |-> << >>, supplier_options |-> << >>,
     category_ix |-> 1, supplier_ix |-> 1, markup |-> 10, waste |-> 0]

\* An uncaught exception ends the run: the widgets the run did not reach
\* keep their state, the variables it did not assign stay unset.
Abort(src, d, f, w, e, line) ==
    [reader |-> src.reader, df |-> d, filtered_df |-> f,
     total_adjusted_cost |-> 0, fig1 |-> NoChart, w |-> w,
     err |-> e, errline |-> line]

\* One run of the script from line 42 to the end, with the uploader
\* holding up and the widgets in state w.
Script(c, up, w) ==
    LET src == Source(c, up)
        d1 == Rename(src.df)
        d2 == WithTotalCost(d1)
        catopts == Options(d2, CATEGORY)
        cix == Selectbox(catopts, w.category_options, w.category_ix)
        w70 == [w EXCEPT !.category_options = catopts, !.category_ix = cix]
        supopts == Options(d2, SUPPLIER)
        six == Selectbox(supopts, w.supplier_options, w.supplier_ix)
        w71 == [w70 EXCEPT !.supplier_options = supopts, !.supplier_ix = six]
        f2 == Filtered(d2, catopts[cix], supopts[six])
        f84 == Assign(f2, ADJUSTED_QTY,
                      [i \in 1..NRows(f2) |-> AdjustedQty(f2.rows[i], w.waste)])
        f86 == Adjust(f2, w.markup, w.waste)
    IN  IF ~src.ok
          THEN Abort(src, load_data(c), EmptyTable, w, src.err, src.line)
        ELSE IF TOTAL_COST \notin d1.cols /\ ~({QUANTITY, UNIT_PRICE} \subseteq d1.cols)
          THEN Abort(src, d1, EmptyTable, w, "KeyError", 66)
        ELSE IF CATEGORY \notin d2.cols
          THEN Abort(src, d2, EmptyTable, w, "KeyError", 70)
        ELSE IF SUPPLIER \notin d2.cols
          THEN Abort(src, d2, EmptyTable, w70, "KeyError", 71)
        ELSE IF QUANTITY \notin f2.cols
          THEN Abort(src, d2, f2, w71, "KeyError", 84)
        ELSE IF UNIT_PRICE \notin f2.cols
          THEN Abort(src, d2, f84, w71, "KeyError", 85)
        ELSE [reader |-> src.reader, df |-> d2, filtered_df |-> f86,
              total_adjusted_cost |-> Total(f86), fig1 |-> GroupBySum(f86),
              w |-> w71, err |-> "none", errline |-> 0]

----------------------------------------------------------------------------
(* State machine *)

Widgets ==
    [category_options |-> category_options, supplier_options |-> supplier_options,
     category_ix |-> category_ix, supplier_ix |-> supplier_ix,
     markup |-> markup, waste |-> waste]

\* the values of the sliders the model sets
Markups == {0, 10, 50}
Wastes == {0, 20}

\* the script is run with the uploader holding up and the widgets set to w
Rerun(up, w) ==
    \E out \in {Script(cache, up, w)} :
        /\ uploaded_file' = up
        /\ reader' = out.reader
        /\ df' = out.df
        /\ category_options' = out.w.category_options
        /\ supplier_options' = out.w.supplier_options
        /\ category_ix' = out.w.category_ix
        /\ supplier_ix' = out.w.supplier_ix
        /\ markup' = out.w.markup
        /\ waste' = out.w.waste
        /\ filtered_df' = out.filtered_df
        /\ total_adjusted_cost' = out.total_adjusted_cost
        /\ fig1' = out.fig1
        /\ err' = out.err
        /\ errline' = out.errline
        /\ UNCHANGED << cache, disk >>

\* the first run of a session: nothing uploaded, every widget at its default
Init ==
    LET out == Script(DefaultData, << >>, FreshWidgets)
    IN  /\ cache = DefaultData
        /\ disk \in Files
        /\ uploaded_file = << >>
        /\ reader = out.reader
        /\ df = out.df
        /\ category_options = out.w.category_options
        /\ supplier_options = out.w.supplier_options
        /\ category_ix = out.w.category_ix
        /\ supplier_ix = out.w.supplier_ix
        /\ markup = out.w.markup
        /\ waste = out.w.waste
        /\ filtered_df = out.filtered_df
        /\ total_adjusted_cost = out.total_adjusted_cost
        /\ fig1 = out.fig1
        /\ err = out.err
        /\ errline = out.errline

\* the user hands the uploader the file; the widget accepts its name
Upload ==
    /\ Accepted(disk.name)
    /\ Rerun(<< [name |-> disk.name, format |-> Format(disk.name),
                 table |-> disk.table] >>, Widgets)

\* the user hands the uploader the file and the widget refuses its name:
\* the uploader holds what it held and the script is not run
RefusedUpload ==
    /\ ~Accepted(disk.name)
    /\ UNCHANGED vars

\* the user removes the uploaded file
ClearUpload ==
    /\ uploaded_file # << >>
    /\ Rerun(<< >>, Widgets)

\* the widgets the last run rendered are the ones the user can touch
Rendered(line) == errline = 0 \/ errline > line

SelectCategory(i) ==
    /\ Rendered(70)
    /\ i # category_ix
    /\ Rerun(uploaded_file, [Widgets EXCEPT !.category_ix = i])

SelectSupplier(i) ==
    /\ Rendered(71)
    /\ i # supplier_ix
    /\ Rerun(uploaded_file, [Widgets EXCEPT !.supplier_ix = i])

SetMarkup(m) ==
    /\ Rendered(81)
    /\ m # markup
    /\ Rerun(uploaded_file, [Widgets EXCEPT !.markup = m])

SetWaste(x) ==
    /\ Rendered(82)
    /\ x # waste
    /\ Rerun(uploaded_file, [Widgets EXCEPT !.waste = x])

Next ==
    \/ Upload
    \/ RefusedUpload
    \/ ClearUpload
    \/ \E i \in 1..Len(category_options) : SelectCategory(i)
    \/ \E i \in 1..Len(supplier_options) : SelectSupplier(i)
    \/ \E m \in Markups : SetMarkup(m)
    \/ \E x \in Wastes : SetWaste(x)

Spec == Init /\ [][Next]_vars

----------------------------------------------------------------------------
(* Vocabulary of the properties *)

\* the last run reached the end of the script
Ok == errline = 0

Uploaded == uploaded_file # << >>

\* the values the two select boxes return (lines 70, 71)
category == category_options[category_ix]
supplier == supplier_options[supplier_ix]

\* the table of the source the last run read
SourceTable == IF Uploaded THEN uploaded_file[1].table ELSE DefaultData

\* the last run got a table from its source
Loaded == errline \notin {49, 51}

\* the row passes the filter of the specification
Survives(r) ==
    /\ category = ALL \/ r[CATEGORY] = category
    /\ supplier = ALL \/ r[SUPPLIER] = supplier

\* the rows of filtered_df, without the derived columns
Kept == Project(filtered_df, df.cols)

RECURSIVE SumOver(_, _)
SumOver(f, S) ==
    IF S = {} THEN 0
    ELSE LET x == CHOOSE y \in S : TRUE IN f[x] + SumOver(f, S \ {x})

RECURSIVE SumTo(_, _, _)
SumTo(s, col, n) == IF n = 0 THEN 0 ELSE SumTo(s, col, n - 1) + s[n][col]

\* the part of a file name after its last dot
Extension(name) ==
    LET dots == {i \in 1..Len(name) : name[i] = "."}
        last == CHOOSE i \in dots : \A j \in dots : j <= i
    IN  IF dots = {} THEN << >> ELSE SubSeq(name, last + 1, Len(name))

\* the cell of row i of the source under the header renamed to canon
SourceCell(i, canon) ==
    SourceTable.rows[i][CHOOSE c \in SourceTable.cols : RenameCol(c) = canon]

SourceHas(canon) == \E c \in SourceTable.cols : RenameCol(c) = canon

----------------------------------------------------------------------------
(* C1 *)

\* C1: after every run that completes, the grand total equals the sum of the
\* values of the category aggregate, and both equal the sum of the Adjusted
\* Cost of the rows of the filtered table; the aggregate has one entry for
\* each category of those rows.
ConsistentOutputs ==
    Ok =>
        /\ DOMAIN fig1 = Unique(filtered_df, CATEGORY)
        /\ total_adjusted_cost = SumOver(fig1, DOMAIN fig1)
        /\ total_adjusted_cost
              = SumTo(filtered_df.rows, ADJUSTED_COST, NRows(filtered_df))

\* an uploaded table whose filtered rows fall in two categories, adjusted
ConsistentOutputsWitness ==
    /\ Ok /\ Uploaded
    /\ Cardinality(DOMAIN fig1) = 2
    /\ markup # 0 /\ waste # 0
    /\ total_adjusted_cost # 0

----------------------------------------------------------------------------
(* C2 *)

\* C2: the filter keeps exactly the rows of df whose category is the
\* selected one (or any, under All) and whose supplier is the selected one
\* (or any, under All), in the order of df; under All/All it keeps every row.
FilterKeepsExactly ==
    Ok =>
        /\ filtered_df.cols = df.cols \cup Derived
        /\ Kept = SelectSeq(df.rows, Survives)
        /\ (category = ALL /\ supplier = ALL) => Kept = df.rows
        /\ category # ALL =>
              \A i \in 1..NRows(filtered_df) : filtered_df.rows[i][CATEGORY] = category

\* a specific category is selected: some rows are kept and some are dropped
FilterKeepsExactlyWitness ==
    /\ Ok /\ Uploaded
    /\ category # ALL
    /\ NRows(filtered_df) > 0
    /\ NRows(filtered_df) < NRows(df)

----------------------------------------------------------------------------
(* C3 *)

\* C3: when the table read from the upload lacks, after renaming, one of
\* the required columns, the run fails with MissingColumnError and produces
\* no table.
MissingColumnRejected ==
    (Uploaded /\ Loaded /\ \E c \in Required : ~SourceHas(c)) =>
        /\ err = "MissingColumnError"
        /\ filtered_df = EmptyTable

----------------------------------------------------------------------------
(* C4 *)

\* C4: an uploaded file whose extension is csv is read as csv, one whose
\* extension is xlsx is read as a spreadsheet, and one whose extension is
\* neither fails with UnsupportedFormatError without being handed to a reader.
ClassifiedByExtension ==
    Uploaded =>
        LET ext == Extension(uploaded_file[1].name)
        IN  /\ ext = << "c", "s", "v" >> => reader = "read_csv"
            /\ ext = << "x", "l", "s", "x" >> => reader = "read_excel"
            /\ ext \notin UploaderTypes =>
                  (err = "UnsupportedFormatError" /\ reader = "none")

----------------------------------------------------------------------------
(* C5 *)

\* a step that raises a slider, or leaves it, and changes neither the table
\* nor the filters, between two runs that complete
RaisingStep ==
    /\ Ok /\ Ok'
    /\ df' = df
    /\ category' = category /\ supplier' = supplier
    /\ markup' >= markup /\ waste' >= waste

\* C5: raising the markup or the waste, with the table and the filters
\* fixed, never makes the grand total smaller.
MonotoneTotal ==
    [][RaisingStep => total_adjusted_cost' >= total_adjusted_cost]_vars

\* every row that survives the filter has Quantity * Unit Price >= 0
NonNegativeRows ==
    \A i \in 1..NRows(filtered_df) :
        filtered_df.rows[i][QUANTITY] * filtered_df.rows[i][UNIT_PRICE] >= 0

\* C5, amended: raising the markup or the waste, with the table and the
\* filters fixed, never makes the grand total smaller when every row that
\* survives the filter has Quantity * Unit Price >= 0.
MonotoneTotalNonNegative ==
    [][(RaisingStep /\ NonNegativeRows)
          => total_adjusted_cost' >= total_adjusted_cost]_vars

\* both sliders stand above their defaults over surviving rows that cost
MonotoneTotalWitness ==
    /\ Ok /\ Uploaded
    /\ NonNegativeRows
    /\ markup = 50 /\ waste = 20
    /\ total_adjusted_cost > 0

----------------------------------------------------------------------------
(* C6 *)

\* C6: once the load is past, every row of df has a Total Cost: the value
\* the source supplies when it has the column under either of its names, and
\* Quantity * Unit Price when it has not.
TotalCostPresent ==
    (Loaded /\ errline # 66) =>
        /\ TOTAL_COST \in df.cols
        /\ NRows(df) = NRows(SourceTable)
        /\ \A i \in 1..NRows(df) :
              df.rows[i][TOTAL_COST] =
                 IF SourceHas(TOTAL_COST) THEN SourceCell(i, TOTAL_COST)
                 ELSE SourceCell(i, QUANTITY) * SourceCell(i, UNIT_PRICE)

\* a supplied Total Cost that is not Quantity * Unit Price is kept
TotalCostPresentWitness ==
    /\ Ok /\ Uploaded
    /\ SourceHas(TOTAL_COST)
    /\ NRows(df) > 0
    /\ \A i \in 1..NRows(df) :
          df.rows[i][TOTAL_COST] # df.rows[i][QUANTITY] * df.rows[i][UNIT_PRICE]

----------------------------------------------------------------------------
(* C7 *)

\* the example of the specification: 10 at 5.00 and 4 at 12.50
IsExample ==
    /\ NRows(filtered_df) = 2
    /\ filtered_df.rows[1][QUANTITY] = 10 /\ filtered_df.rows[1][UNIT_PRICE] = 500
    /\ filtered_df.rows[2][QUANTITY] = 4 /\ filtered_df.rows[2][UNIT_PRICE] = 1250
    /\ markup = 10 /\ waste = 0

\* C7: in every row of the filtered table Adjusted Qty is Quantity times
\* (1 + waste/100), Final Unit Price is Unit Price times (1 + markup/100) and
\* Adjusted Cost is their product; with both sliders at 0 the Adjusted Cost
\* is Quantity * Unit Price; the example gives 55.00, 55.00 and 110.00.
\* (Adjusted Qty and Final Unit Price are held in hundredths, Adjusted Cost
\* in ten-thousandths of a cent: 55.00 is 5500 cents.)
AdjustmentFormulas ==
    Ok =>
        /\ \A i \in 1..NRows(filtered_df) :
              LET r == filtered_df.rows[i]
              IN  /\ r[ADJUSTED_QTY] = r[QUANTITY] * 100 + r[QUANTITY] * waste
                  /\ r[FINAL_UNIT_PRICE] = r[UNIT_PRICE] * 100 + r[UNIT_PRICE] * markup
                  /\ r[ADJUSTED_COST] = r[ADJUSTED_QTY] * r[FINAL_UNIT_PRICE]
                  /\ (markup = 0 /\ waste = 0) =>
                        r[ADJUSTED_COST] = r[QUANTITY] * r[UNIT_PRICE] * 10000
        /\ IsExample =>
              /\ filtered_df.rows[1][ADJUSTED_COST] = 5500 * 10000
              /\ filtered_df.rows[2][ADJUSTED_COST] = 5500 * 10000
              /\ total_adjusted_cost = 11000 * 10000

\* both sliders at 0 over an uploaded table with rows
AdjustmentFormulasWitness ==
    /\ Ok /\ Uploaded
    /\ markup = 0 /\ waste = 0
    /\ NRows(filtered_df) > 0

----------------------------------------------------------------------------
(* C8 *)

\* a label that no table of the model holds
Stale == "Ducting"

\* C8: when no row of df passes the filter the run completes with an empty
\* filtered table, a grand total of zero and an aggregate without entries;
\* and the filter, the adjustment and the two sums applied to a category or
\* a supplier that does not occur in df give the same empty result.
EmptyFilterIsValid ==
    /\ (Ok /\ SelectSeq(df.rows, Survives) = << >>) =>
          /\ filtered_df.rows = << >>
          /\ total_adjusted_cost = 0
          /\ DOMAIN fig1 = {}
    /\ Ok =>
          \A v \in Categories \cup Suppliers \cup {Stale} :
              /\ (v # ALL /\ v \notin Unique(df, CATEGORY)) =>
                    LET f == Adjust(Filtered(df, v, supplier), markup, waste)
                    IN  f.rows = << >> /\ Total(f) = 0 /\ DOMAIN GroupBySum(f) = {}
              /\ (v # ALL /\ v \notin Unique(df, SUPPLIER)) =>
                    LET f == Adjust(Filtered(df, category, v), markup, waste)
                    IN  f.rows = << >> /\ Total(f) = 0 /\ DOMAIN GroupBySum(f) = {}

\* a category and a supplier of the table that no row combines
EmptyFilterIsValidWitness ==
    /\ Ok /\ Uploaded
    /\ category # ALL /\ supplier # ALL
    /\ NRows(df) > 0
    /\ filtered_df.rows = << >>

----------------------------------------------------------------------------
(* C9 *)

\* C9: the table the pipeline works on holds exactly the rows of the
\* uploaded file, or of the bundled dataset when nothing is uploaded, cell
\* for cell and in order, and none of the derived columns; the memoized
\* default dataset stays what was read from the bundled file.
ReplacedWholesale ==
    /\ cache = DefaultData
    /\ (Loaded /\ errline # 66) =>
          /\ df.cols \cap Derived = {}
          /\ df.cols = {RenameCol(c) : c \in SourceTable.cols} \cup {TOTAL_COST}
          /\ NRows(df) = NRows(SourceTable)
          /\ \A i \in 1..NRows(df) : \A c \in SourceTable.cols :
                df.rows[i][RenameCol(c)] = SourceTable.rows[i][c]

\* an upload under the header of the bundled dataset, after the sliders and
\* a filter have been moved
ReplacedWholesaleWitness ==
    /\ Ok /\ Uploaded
    /\ SourceTable.cols = DefaultData.cols
    /\ NRows(df) > 0
    /\ markup # 10 /\ waste # 0 /\ category # ALL

----------------------------------------------------------------------------
(* C10 *)

\* C10: the options of each select box are All followed by the sorted
\* distinct values of the column in df, and selecting an option after the
\* first, a value of the column, keeps exactly the rows that hold that value.
SentinelDistinct ==
    Ok =>
        /\ category_options = << ALL >> \o Sorted(Unique(df, CATEGORY))
        /\ supplier_options = << ALL >> \o Sorted(Unique(df, SUPPLIER))
        /\ category_ix > 1 =>
              Kept = SelectSeq(df.rows, LAMBDA r :
                        /\ r[CATEGORY] = category_options[category_ix]
                        /\ supplier_ix > 1 => r[SUPPLIER] = supplier_options[supplier_ix])
        /\ supplier_ix > 1 =>
              Kept = SelectSeq(df.rows, LAMBDA r :
                        /\ r[SUPPLIER] = supplier_options[supplier_ix]
                        /\ category_ix > 1 => r[CATEGORY] = category_options[category_ix])

====
